---- MODULE Spec2Model ----
(***************************************************************************)
(* SuraSmart: the case lifecycle state machine, the match ledger, the      *)
(* review gate and the search-session workflow of the facial recognition   *)
(* backend (backend/facial_recognition), as a state machine over the       *)
(* database rows the handlers read and write; and the disaggregated        *)
(* evaluation of the bias auditor (backend/sura_smart/bias_audit), whose   *)
(* accuracies are binary64 floats.                                         *)
(*                                                                         *)
(* Confidences are in thousandths (0.975 is 975); timestamps are whole     *)
(* days on a logical clock that starts at 1, 0 standing for a null         *)
(* DateTimeField.                                                          *)
(***************************************************************************)
EXTENDS Integers, Sequences, FiniteSets, Bags, TLC

VARIABLES
    clock,      \* django.utils.timezone.now(), in days
    cases,      \* MissingPerson rows, by id
    images,     \* FacialRecognitionImage rows, by id
    matches,    \* FacialMatch rows, in creation order
    sessions,   \* SearchSession rows, in creation order
    events,     \* AuditLog rows written by the latest request
    resp,       \* outcome of the latest request
    reqs,       \* in-flight sign_closure requests (concurrent deployment)
    searches,   \* in-flight search requests (concurrent deployment)
    report,     \* the latest bias audit: its predictions and its report
    closures    \* in-flight session closure requests (concurrent deployment)

vars == <<clock, cases, images, matches, sessions, events, resp, reqs, searches, report,
          closures>>

----------------------------------------------------------------------------
(* Bounds *)

MaxClock == 2

CaseIds == {"c1", "c2"}
Users == {"family01", "officer01"}
Reporters == {"family01"}
Officers == {"officer01"}
MaxImages == 2
MaxSessions == 2
MaxCaseSessions == 1
MaxGateSessions == 2
MaxLedgerImages == 2
MaxLedgerSessions == 2
MaxRaceSessions == 3
MaxCloseSessions == 1
MaxScanImages == 2
MaxScanSessions == 2
MaxCommandImages == 1
MaxCommandSessions == 1
MaxMinSamples == 2

\* the requests two workers serve at the same time
SearchReqs == {"r1", "r2"}

\* the closure requests two workers serve at the same time
CloseReqs == {"k1", "k2"}

\* similarities a search may compute, in thousandths
Confidences == {0, 499, 500, 890, 900, 975, 980, 990}
SomeConfidences == {950, 990}
LedgerConfidences == {499, 500, 950, 990}
RaceConfidences == {499, 950, 990}
CloseConfidences == {499, 990}
ScanConfidences == {0, 500, 990}
\* the action tokens of closure requests: the four choices and another
CloseActions == {"save", "finalize", "search_again", "no_match", "invalid_action"}

\* The prediction records of the audits: blocks of records of one gender,
\* skin type and age group, as <<number of records, number predicted right>>
Genders == {"male", "female"}
SkinTypes == {"fitzpatrick_i", "fitzpatrick_vi"}
AgeGroups == {"adult", "child"}
AuditCounts == {<<100, 99>>, <<100, 98>>, <<100, 97>>, <<100, 85>>}
\* the similarity of the searches that precede an audit run
CommandConfidences == {990}
\* the --min-samples option of run_bias_audit
MinSamples == 0..MaxMinSamples
\* the gender and age a report may carry ('' and null when left out)
PersonGenders == {"", "other"}
PersonAges == {0, 30}
\* The negatives of a group of the threshold tunings, as a bag of
\* confidences (in thousandths); every group has ten positives at 0.97 too
NegativeProfiles ==
    {EmptyBag,
     200 :> 100,
     (200 :> 95) @@ (600 :> 5),
     (200 :> 199) @@ (995 :> 1),
     (200 :> 90) @@ (995 :> 10)}
\* the target_fpr argument of tune_thresholds, in ten-thousandths; -1 is
\* None (the argument left out)
TargetFprs == {-1, 0, 50, 1000}
\* the notes of a verify or reject request ('' when the request has none)
ReviewNotes == {"", "note"}
\* arguments of direct calls of _determine_hitl
HitlInputs == Confidences \cup {970, 1000}

----------------------------------------------------------------------------
(* Program constants *)

NoTime == 0
RetentionDays == 1825
NoUser == "None"
\* the default of MissingPerson.status (models.py line 32)
DefaultStatus == "reported"
\* a null age; its only reader takes `age or 0`
NoAge == 0
AdultAge == 18
\* a floor that lets 0.499 through
Floor_Below == 500 - 1
\* the minimum plausible confidence (views.py line 511)
Floor == 500
ReviewLow == 900
ReviewHigh == 980

CLOSURE_CHOICES == {"save", "finalize", "search_again", "no_match"}

\* the roles whose ROLE_PERMISSIONS entry has can_verify_matches
CanVerifyMatches == {"police_officer"}

\* the roles whose ROLE_PERMISSIONS entry has can_access_all_cases
AllCasesRoles == {"government_official"}

Role(u) == IF u = "family01" THEN "family_member" ELSE "police_officer"

STATUS_CHOICES ==
    {"REPORTED", "UNDER_INVESTIGATION", "MATCH_FOUND", "PENDING_CLOSURE",
     "CLOSED", "NO_MATCH"}

\* Attributes of a MissingPerson instance: its fields, and <fk>_id for each
\* foreign key.
MissingPersonAttrs ==
    {"id", "reported_by", "reported_by_id", "full_name", "description", "status",
     "date_reported", "last_seen_date", "last_seen_location", "jurisdiction",
     "emergency_flag", "dual_signature_family", "dual_signature_police",
     "resolved_at", "retention_expiry_date", "age", "gender",
     "identifying_marks", "created_at", "updated_at"}

\* the table with REPORTED -> MATCH_FOUND let through
VALID_TRANSITIONS_Skip(s) ==
    CASE s = "REPORTED" -> {"UNDER_INVESTIGATION", "CLOSED", "MATCH_FOUND"}
      [] s = "UNDER_INVESTIGATION" -> {"MATCH_FOUND", "NO_MATCH", "CLOSED"}
      [] s = "MATCH_FOUND" -> {"PENDING_CLOSURE", "UNDER_INVESTIGATION", "CLOSED"}
      [] s = "PENDING_CLOSURE" -> {"CLOSED", "UNDER_INVESTIGATION"}
      [] s = "NO_MATCH" -> {"UNDER_INVESTIGATION", "CLOSED"}
      [] s = "CLOSED" -> {}
      [] OTHER -> {}

\* the table with a way out of CLOSED
VALID_TRANSITIONS_Reopen(s) ==
    CASE s = "REPORTED" -> {"UNDER_INVESTIGATION", "CLOSED"}
      [] s = "UNDER_INVESTIGATION" -> {"MATCH_FOUND", "NO_MATCH", "CLOSED"}
      [] s = "MATCH_FOUND" -> {"PENDING_CLOSURE", "UNDER_INVESTIGATION", "CLOSED"}
      [] s = "PENDING_CLOSURE" -> {"CLOSED", "UNDER_INVESTIGATION"}
      [] s = "NO_MATCH" -> {"UNDER_INVESTIGATION", "CLOSED"}
      [] s = "CLOSED" -> {"UNDER_INVESTIGATION"}
      [] OTHER -> {}

\* CaseStateMachine.VALID_TRANSITIONS.get(s, [])
VALID_TRANSITIONS(s) ==
    CASE s = "REPORTED" -> {"UNDER_INVESTIGATION", "CLOSED"}
      [] s = "UNDER_INVESTIGATION" -> {"MATCH_FOUND", "NO_MATCH", "CLOSED"}
      [] s = "MATCH_FOUND" -> {"PENDING_CLOSURE", "UNDER_INVESTIGATION", "CLOSED"}
      [] s = "PENDING_CLOSURE" -> {"CLOSED", "UNDER_INVESTIGATION"}
      [] s = "NO_MATCH" -> {"UNDER_INVESTIGATION", "CLOSED"}
      [] s = "CLOSED" -> {}
      [] OTHER -> {}

----------------------------------------------------------------------------
(* MissingPerson *)

NewCase(u, st) ==
    [status |-> st, reported_by |-> u,
     dual_signature_family |-> FALSE, dual_signature_police |-> FALSE,
     resolved_at |-> NoTime, retention_expiry_date |-> NoTime,
     created_at |-> NoTime, gender |-> "", age |-> NoAge]

\* save() stamping every CLOSED case it writes
MissingPerson_save_Restamp(obj, now) ==
    LET base == IF obj.created_at = NoTime THEN now ELSE obj.created_at
        o1 == IF obj.status = "CLOSED"
              THEN [obj EXCEPT !.resolved_at = now,
                               !.retention_expiry_date = now]
              ELSE IF obj.retention_expiry_date = NoTime
                   THEN [obj EXCEPT !.retention_expiry_date = base + RetentionDays]
                   ELSE obj
    IN  [o1 EXCEPT !.created_at = IF @ = NoTime THEN now ELSE @]

\* MissingPerson.save(): the retention logic, then the row is written;
\* auto_now_add fills created_at on the first write.
MissingPerson_save(obj, now) ==
    LET base == IF obj.created_at = NoTime THEN now ELSE obj.created_at
        o1 == IF obj.status = "CLOSED" /\ obj.resolved_at = NoTime
              THEN [obj EXCEPT !.resolved_at = now,
                               !.retention_expiry_date = now]
              ELSE IF obj.retention_expiry_date = NoTime
                   THEN [obj EXCEPT !.retention_expiry_date = base + RetentionDays]
                   ELSE obj
    IN  [o1 EXCEPT !.created_at = IF @ = NoTime THEN now ELSE @]

----------------------------------------------------------------------------
(* BlockchainService and CaseStateMachine *)

\* BlockchainService.log_event: one AuditLog row. It reads actor.id first, so
\* a null actor raises before any row is written.
log_event(case_id, actor, action) ==
    IF actor = NoUser
    THEN [err |-> "AttributeError", rows |-> <<>>]
    ELSE [err |-> "", rows |-> <<[case_id |-> case_id, actor |-> actor,
                                  action |-> action]>>]

\* CaseStateMachine.transition_to on the in-memory case obj. saved tells
\* whether case.save() ran, obj is the object afterwards (the row written
\* when saved).
transition_to(id, obj, new_state, actor, now) ==
    LET current_state == obj.status IN
    IF new_state \notin VALID_TRANSITIONS(current_state)
    THEN [err |-> "ValueError", obj |-> obj, saved |-> FALSE, rows |-> <<>>]
    ELSE LET o1 == [obj EXCEPT !.status = new_state]
             o2 == IF new_state = "CLOSED"
                   THEN [o1 EXCEPT !.resolved_at = now]
                   ELSE o1
             o3 == MissingPerson_save(o2, now)
             lg == log_event(id, actor, <<"TRANSITION", current_state, new_state>>)
         IN  [err |-> lg.err, obj |-> o3, saved |-> TRUE, rows |-> lg.rows]

\* toggle_signature without the promotion of a MATCH_FOUND case
toggle_signature_sign_NoPromote(obj, actor_role, now) ==
    IF obj.status # "PENDING_CLOSURE" /\ obj.status # "MATCH_FOUND"
    THEN [err |-> "ValueError", obj |-> obj, saved |-> FALSE]
    ELSE LET o2 == IF actor_role = "family_member"
                   THEN [obj EXCEPT !.dual_signature_family = TRUE]
                   ELSE IF actor_role = "police_officer"
                        THEN [obj EXCEPT !.dual_signature_police = TRUE]
                        ELSE obj
         IN  [err |-> "", obj |-> MissingPerson_save(o2, now), saved |-> TRUE]

\* toggle_signature promoting every case that is not PENDING_CLOSURE
toggle_signature_sign_AnyState(obj, actor_role, now) ==
    LET o1 == IF obj.status # "PENDING_CLOSURE"
              THEN [obj EXCEPT !.status = "PENDING_CLOSURE"]
              ELSE obj
        o2 == IF actor_role = "family_member"
              THEN [o1 EXCEPT !.dual_signature_family = TRUE]
              ELSE IF actor_role = "police_officer"
                   THEN [o1 EXCEPT !.dual_signature_police = TRUE]
                   ELSE o1
    IN  [err |-> "", obj |-> MissingPerson_save(o2, now), saved |-> TRUE]

\* toggle_signature flipping the signer's flag
toggle_signature_sign_Flip(obj, actor_role, now) ==
    IF obj.status # "PENDING_CLOSURE" /\ obj.status # "MATCH_FOUND"
    THEN [err |-> "ValueError", obj |-> obj, saved |-> FALSE]
    ELSE LET o1 == IF obj.status # "PENDING_CLOSURE"
                   THEN [obj EXCEPT !.status = "PENDING_CLOSURE"]
                   ELSE obj
             o2 == IF actor_role = "family_member"
                   THEN [o1 EXCEPT !.dual_signature_family = ~@]
                   ELSE IF actor_role = "police_officer"
                        THEN [o1 EXCEPT !.dual_signature_police = ~@]
                        ELSE o1
         IN  [err |-> "", obj |-> MissingPerson_save(o2, now), saved |-> TRUE]

\* toggle_signature, up to and including its case.save() (lines 58-70)
toggle_signature_sign(obj, actor_role, now) ==
    IF obj.status # "PENDING_CLOSURE" /\ obj.status # "MATCH_FOUND"
    THEN [err |-> "ValueError", obj |-> obj, saved |-> FALSE]
    ELSE LET o1 == IF obj.status # "PENDING_CLOSURE"
                   THEN [obj EXCEPT !.status = "PENDING_CLOSURE"]
                   ELSE obj
             o2 == IF actor_role = "family_member"
                   THEN [o1 EXCEPT !.dual_signature_family = TRUE]
                   ELSE IF actor_role = "police_officer"
                        THEN [o1 EXCEPT !.dual_signature_police = TRUE]
                        ELSE o1
         IN  [err |-> "", obj |-> MissingPerson_save(o2, now), saved |-> TRUE]

\* toggle_signature after its case.save() (lines 72-82): the closing
\* transition when the in-memory case carries both signatures, else the
\* SIGNATURE_ADDED audit row. The actor expression reads
\* case.assigned_officer_id, which raises when the instance has no such
\* attribute.
toggle_signature_close(id, obj, actor_role, now) ==
    IF obj.dual_signature_family /\ obj.dual_signature_police
    THEN IF "assigned_officer_id" \notin MissingPersonAttrs
         THEN [err |-> "AttributeError", obj |-> obj, saved |-> FALSE,
               rows |-> <<>>, ret |-> FALSE]
         ELSE LET t == transition_to(id, obj, "CLOSED", obj.reported_by, now)
              IN  [err |-> t.err, obj |-> t.obj, saved |-> t.saved,
                   rows |-> t.rows, ret |-> t.err = ""]
    ELSE LET lg == log_event(id, obj.reported_by,
                             <<"SIGNATURE_ADDED_BY", actor_role>>)
         IN  [err |-> lg.err, obj |-> obj, saved |-> FALSE, rows |-> lg.rows,
              ret |-> FALSE]

\* toggle_signature as one call
toggle_signature(id, obj, actor_role, now) ==
    LET s == toggle_signature_sign(obj, actor_role, now) IN
    IF s.err # ""
    THEN [err |-> s.err, obj |-> s.obj, saved |-> FALSE, rows |-> <<>>,
          ret |-> FALSE]
    ELSE LET c == toggle_signature_close(id, s.obj, actor_role, now)
         IN  [c EXCEPT !.saved = TRUE]

----------------------------------------------------------------------------
(* Review gate, matcher and match ledger *)

\* the band closed at its upper end
_determine_hitl_Closed(confidence) ==
    ReviewLow <= confidence /\ confidence <= ReviewHigh

\* _determine_hitl
_determine_hitl(confidence) ==
    ReviewLow <= confidence /\ confidence < ReviewHigh

\* FacialRecognitionImage.objects.filter(status='completed')
\*   .exclude(face_embedding__isnull=True), in Meta.ordering (-created_at):
\* the indexes of the rows, newest first
RECURSIVE db_images_from(_)
db_images_from(n) ==
    IF n = 0 THEN <<>>
    ELSE (IF images[n].status = "completed" /\ images[n].face_embedding
          THEN <<n>> ELSE <<>>) \o db_images_from(n - 1)

db_images == db_images_from(Len(images))

\* the scan with a later record replacing the best on equal similarity
RECURSIVE best_scan_LastWins(_, _, _, _, _)
best_scan_LastWins(order, sim, k, best_confidence, best_db_image) ==
    IF k > Len(order) THEN [confidence |-> best_confidence, image |-> best_db_image]
    ELSE IF sim[order[k]] >= best_confidence
         THEN best_scan_LastWins(order, sim, k + 1, sim[order[k]], order[k])
         ELSE best_scan_LastWins(order, sim, k + 1, best_confidence, best_db_image)

\* The scan of search_facial_recognition (lines 486-499): sim[i] is
\* _cosine_similarity(query, image i)
RECURSIVE best_scan(_, _, _, _, _)
best_scan(order, sim, k, best_confidence, best_db_image) ==
    IF k > Len(order) THEN [confidence |-> best_confidence, image |-> best_db_image]
    ELSE IF sim[order[k]] > best_confidence
         THEN best_scan(order, sim, k + 1, sim[order[k]], order[k])
         ELSE best_scan(order, sim, k + 1, best_confidence, best_db_image)

\* The FacialMatch rows get_or_create's lookup finds
match_rows(ms, mp, img) ==
    {m \in 1..Len(ms) : ms[m].missing_person = mp /\ ms[m].source_image = img}

NewMatch(mp, img, confidence, flag) ==
    [missing_person |-> mp, source_image |-> img,
     match_confidence |-> confidence, distance_metric |-> 1000 - confidence,
     status |-> "pending_review", verified_by |-> NoUser,
     verification_notes |-> "", requires_human_review |-> flag]

\* get_or_create creating a row whether or not the pair has one
upsert_match_AlwaysCreate(ms, mp, img, confidence) ==
    [err |-> "",
     matches |-> Append(ms, NewMatch(mp, img, confidence, _determine_hitl(confidence))),
     match |-> Len(ms) + 1, created |-> TRUE]

\* Lines 511-533: FacialMatch.objects.get_or_create and the update of a row
\* that existed. More than one row for the pair makes get() raise.
upsert_match(ms, mp, img, confidence) ==
    LET hitl_flag == _determine_hitl(confidence)
        found == match_rows(ms, mp, img)
    IN  IF found = {}
        THEN [err |-> "", matches |-> Append(ms, NewMatch(mp, img, confidence, hitl_flag)),
              match |-> Len(ms) + 1, created |-> TRUE]
        ELSE IF Cardinality(found) > 1
             THEN [err |-> "MultipleObjectsReturned", matches |-> ms,
                   match |-> 0, created |-> FALSE]
             ELSE LET m == CHOOSE x \in found : TRUE IN
                  [err |-> "",
                   matches |-> [ms EXCEPT ![m].match_confidence = confidence,
                                          ![m].distance_metric = 1000 - confidence,
                                          ![m].requires_human_review = hitl_flag],
                   match |-> m, created |-> FALSE]

NewSession(u, consent) ==
    [user |-> u, consent_given |-> consent, best_match |-> 0,
     match_confidence |-> 0, total_candidates_searched |-> 0,
     is_closed |-> FALSE, closure_action |-> "", closure_notes |-> "",
     closed_at |-> NoTime]

----------------------------------------------------------------------------
(* Python floats (IEEE 754 binary64, round to nearest even) between 0 and  *)
(* 1. Every binary64 value from 0.0001 to 1 is a multiple of 2^-66; a      *)
(* float is held as the digits <<d0, d1, d2, d3, d4>> of its value in base *)
(* 2^17, d0 being the integer part: 68 binary places.                      *)

LimbBits == 17
Limb == 2^LimbBits
Limbs == 4
Mantissa == 53
\* a decimal with four places is n / Scale
Scale == 10000

\* one digit of the long division of r / Scale
DivStep(r) == [q |-> (r * Limb) \div Scale, r |-> (r * Limb) % Scale]

\* the first Limbs digits of n / Scale and what is left of the dividend
DecimalDigits(n) ==
    LET s1 == DivStep(n % Scale)
        s2 == DivStep(s1.r)
        s3 == DivStep(s2.r)
        s4 == DivStep(s3.r)
    IN  [digits |-> (0 :> n \div Scale) @@ (1 :> s1.q) @@ (2 :> s2.q)
                    @@ (3 :> s3.q) @@ (4 :> s4.q),
         rest |-> s4.r]

\* digit i made smaller than Limb, the excess carried into digit i - 1
RECURSIVE Carry(_, _)
Carry(digits, i) ==
    IF i = 0 \/ digits[i] < Limb THEN digits
    ELSE Carry([digits EXCEPT ![i] = @ - Limb, ![i - 1] = @ + 1], i - 1)

\* digits (followed by more when rest is not 0) rounded to Mantissa
\* significant bits, ties to even. The leading bit has weight 2^E; the
\* bits dropped are the low E + 16 bits of the last digit.
RoundToDouble(digits, rest) ==
    LET nonzero == {i \in 0..Limbs : digits[i] # 0} IN
    IF nonzero = {} THEN digits
    ELSE LET d == CHOOSE i \in nonzero : \A k \in nonzero : i <= k
             top == CHOOSE k \in 0..(LimbBits - 1) :
                       2^k <= digits[d] /\ digits[d] < 2^(k + 1)
             E == top - LimbBits * d
             drop == E - (Mantissa - 1) + LimbBits * Limbs
         IN  IF drop <= 0 THEN digits
             ELSE LET unit == 2^drop
                      low == digits[Limbs] % unit
                      half == unit \div 2
                      odd == (digits[Limbs] \div unit) % 2 = 1
                      up == \/ low > half
                            \/ low = half /\ (rest # 0 \/ odd)
                      kept == [digits EXCEPT ![Limbs] = @ - low]
                  IN  IF up THEN Carry([kept EXCEPT ![Limbs] = @ + unit], Limbs)
                      ELSE kept

\* the float a decimal literal or round(x, 4) denotes: the binary64 value
\* nearest to n / Scale
DoubleOf(n) == RoundToDouble(DecimalDigits(n).digits, DecimalDigits(n).rest)

\* the digits of a - b, for a >= b
RECURSIVE FloatDiff(_, _, _, _)
FloatDiff(a, b, i, borrow) ==
    LET d == a[i] - b[i] - borrow
        digit == (i :> (d + Limb) % Limb)
    IN  IF i = 0 THEN digit
        ELSE digit @@ FloatDiff(a, b, i - 1, IF d < 0 THEN 1 ELSE 0)

\* a - b on floats, for a >= b: the exact difference, rounded
FloatSub(a, b) == RoundToDouble(FloatDiff(a, b, Limbs, 0), 0)

\* a > b on floats
FloatGreater(a, b) ==
    \E i \in 0..Limbs :
        /\ a[i] > b[i]
        /\ \A k \in 0..(i - 1) : a[k] = b[k]

----------------------------------------------------------------------------
(* BiasAuditor. The predictions list is a bag of records (its order is not *)
(* read); the confidence of a record is not read by the evaluation and is  *)
(* left out. A rate is held as the integer n of the decimal n / Scale that *)
(* round(rate, 4) returns.                                                 *)

MAX_BIAS_VARIANCE == 200
AXES == <<"gender", "skin_type", "age_group">>

\* round(n / d, places) as a multiple of 1 / scale, scale = 10^places. No
\* group total of the inputs is a multiple of 32, so no quotient lies half
\* way between two decimals.
RoundDiv(n, d, scale) ==
    LET q == (n * scale) \div d
        r == (n * scale) % d
    IN  IF 2 * r > d \/ (2 * r = d /\ q % 2 = 1) THEN q + 1 ELSE q

\* the scale of the rates rounded to six places
Scale6 == 1000000

\* the records of preds that satisfy y_true = t and y_pred = p
Confusion(preds, t, p) ==
    BagCardinality([k \in {x \in DOMAIN preds : x.y_true = t /\ x.y_pred = p}
                      |-> preds[k]])

_compute_group_metrics(preds) ==
    LET tp == Confusion(preds, 1, 1)
        tn == Confusion(preds, 0, 0)
        fp == Confusion(preds, 0, 1)
        fn == Confusion(preds, 1, 0)
        total == BagCardinality(preds)
        tpr == IF tp + fn > 0 THEN RoundDiv(tp, tp + fn, Scale6) ELSE 0
    IN  [total |-> total, tp |-> tp, tn |-> tn, fp |-> fp, fn |-> fn,
         accuracy |-> IF total > 0 THEN RoundDiv(tp + tn, total, Scale) ELSE 0,
         fpr |-> IF fp + tn > 0 THEN RoundDiv(fp, fp + tn, Scale6) ELSE 0,
         tpr |-> tpr,
         fnr |-> Scale6 - tpr]

\* _evaluate_axis: the metrics of each group of the axis
_evaluate_axis(predictions, axis) ==
    [group \in {k[axis] : k \in DOMAIN predictions} |->
        _compute_group_metrics(
            [k \in {x \in DOMAIN predictions : x[axis] = group} |-> predictions[k]])]

\* Lines 101-106: whether the axis gets a variance alert. accuracies is a
\* list in the code; only its length, its max and its min are read.
VarianceAlert(axis_data) ==
    LET groups == {x \in DOMAIN axis_data : axis_data[x].total > 0}
        accuracies == {axis_data[g].accuracy : g \in groups}
        hi == CHOOSE a \in accuracies : \A b \in accuracies : b <= a
        lo == CHOOSE a \in accuracies : \A b \in accuracies : a <= b
    IN  /\ Cardinality(groups) >= 2
        /\ FloatGreater(FloatSub(DoubleOf(hi), DoubleOf(lo)),
                        DoubleOf(MAX_BIAS_VARIANCE))

\* the target_fpr of BiasAuditor() (0.005), and tune_thresholds' default
\* for its argument target_fpr (None)
DEFAULT_TARGET_FPR == 50
NoTarget == -1

\* [round(t, 2) for t in np.arange(0.50, 1.00, 0.01)], in thousandths
NumThresholds == 50
thresholds == [i \in 1..NumThresholds |-> 500 + 10 * (i - 1)]

\* Lines 193-196: the false-positive rate of preds at thresh, as the pair
\* <<fp, fp + tn>>
fpr_at(preds, thresh) ==
    LET negatives == {x \in DOMAIN preds : x.y_true = 0}
        count(S) == BagCardinality([k \in S |-> preds[k]])
    IN  <<count({x \in negatives : x.confidence >= thresh}), count(negatives)>>

\* Lines 191-198: the scan of one group from threshold number i on
RECURSIVE scan_thresholds(_, _, _, _)
scan_thresholds(preds, target_fpr, i, best_thresh) ==
    IF i > NumThresholds THEN best_thresh
    ELSE LET r == fpr_at(preds, thresholds[i])
             ok == IF r[2] > 0 THEN r[1] * Scale <= target_fpr * r[2]
                   ELSE 0 <= target_fpr
         IN  scan_thresholds(preds, target_fpr, i + 1,
                             IF ok THEN thresholds[i] ELSE best_thresh)

\* BiasAuditor().tune_thresholds(predictions, axis, target_fpr)
tune_thresholds(predictions, axis, target_fpr) ==
    LET target == IF target_fpr = NoTarget \/ target_fpr = 0
                  THEN DEFAULT_TARGET_FPR ELSE target_fpr
    IN  [group \in {k[axis] : k \in DOMAIN predictions} |->
            scan_thresholds(
                [k \in {x \in DOMAIN predictions : x[axis] = group} |-> predictions[k]],
                target, 1, 500)]

disaggregated_evaluation(predictions) ==
    IF predictions = EmptyBag
    THEN [err |-> "ValueError", out |-> <<>>]
    ELSE LET by == [i \in 1..Len(AXES) |-> _evaluate_axis(predictions, AXES[i])]
             alerted(i) == VarianceAlert(by[i])
             variance_alerts == SelectSeq(<<1, 2, 3>>, alerted)
         IN  [err |-> "",
              out |-> [total_samples |-> BagCardinality(predictions),
                       global_metrics |-> _compute_group_metrics(predictions),
                       by_gender |-> by[1],
                       by_skin_type |-> by[2],
                       by_age_group |-> by[3],
                       variance_alerts |->
                          [i \in 1..Len(variance_alerts) |-> AXES[variance_alerts[i]]],
                       audit_passed |-> Len(variance_alerts) = 0]]

----------------------------------------------------------------------------
(* Requests *)

NoResp ==
    [op |-> "none", case |-> "None", arg |-> "", err |-> "", ret |-> FALSE,
     session |-> 0, match |-> 0, confidence |-> 0]

Resp(op, c, arg, err, ret) ==
    [op |-> op, case |-> c, arg |-> arg, err |-> err, ret |-> ret,
     session |-> 0, match |-> 0, confidence |-> 0]

Exists(c) == c \in DOMAIN cases

\* a sign_closure request of user u that has not been received, and one
\* that holds the case object obj it loaded
IdleReq == [pc |-> "idle", case |-> "None", obj |-> NewCase(NoUser, ""),
            err |-> "", ret |-> FALSE]

\* a search request that has not been received
IdleSearch ==
    [pc |-> "idle", session |-> 0, total |-> 0, image |-> 0, confidence |-> 0,
     match |-> 0, obj |-> NewMatch("None", 0, 0, FALSE), err |-> ""]

\* a closure request that has not been received; one that is being served
\* holds the session object obj it loaded, the action and notes it posts
IdleClose ==
    [pc |-> "idle", session |-> 0, action |-> "", notes |-> "",
     obj |-> NewSession(NoUser, FALSE), err |-> ""]

\* no bias audit has run
\* need and found are the counts an error message names, saved tells
\* whether save_report wrote the report
NoReport ==
    [predictions |-> EmptyBag, ran |-> FALSE, err |-> "", out |-> <<>>,
     need |-> 0, found |-> 0, saved |-> FALSE]

\* MissingPersonViewSet.get_queryset for the roles modelled (one jurisdiction)
Visible(u, c) ==
    \/ Role(u) = "police_officer"
    \/ cases[c].reported_by = u

Init ==
    /\ clock = 1
    /\ cases = <<>>
    /\ images = <<>>
    /\ matches = <<>>
    /\ sessions = <<>>
    /\ events = <<>>
    /\ resp = NoResp
    /\ reqs = [u \in Users |-> IdleReq]
    /\ searches = [r \in SearchReqs |-> IdleSearch]
    /\ closures = [r \in CloseReqs |-> IdleClose]
    /\ report = NoReport

\* time passes; days are counted from the first report
Tick ==
    /\ cases # <<>>
    /\ clock < MaxClock
    /\ clock' = clock + 1
    /\ UNCHANGED <<cases, images, matches, sessions, events, resp, reqs, searches, report,
                   closures>>

\* MissingPersonViewSet.perform_create
perform_create(c, u) ==
    /\ ~Exists(c)
    /\ cases' = cases @@ (c :> MissingPerson_save(NewCase(u, "REPORTED"), clock))
    /\ events' = <<>>
    /\ resp' = Resp("perform_create", c, "", "", TRUE)
    /\ UNCHANGED <<clock, images, matches, sessions, reqs, searches, report,
                   closures>>

\* MissingPerson.objects.create(reported_by=u, full_name=...): the row gets
\* the default of every field that is not given
objects_create(c, u) ==
    /\ ~Exists(c)
    /\ cases' = cases @@ (c :> MissingPerson_save(NewCase(u, DefaultStatus), clock))
    /\ events' = <<>>
    /\ resp' = Resp("objects_create", c, "", "", TRUE)
    /\ UNCHANGED <<clock, images, matches, sessions, reqs, searches, report,
                   closures>>

\* MissingPersonViewSet.perform_create with the person's gender and age in
\* the request
perform_create_person(c, u, gender, age) ==
    /\ ~Exists(c)
    /\ cases' = cases @@ (c :> MissingPerson_save(
                     [NewCase(u, "REPORTED") EXCEPT !.gender = gender, !.age = age],
                     clock))
    /\ events' = <<>>
    /\ resp' = Resp("perform_create", c, "", "", TRUE)
    /\ UNCHANGED <<clock, images, matches, sessions, reqs, searches, report,
                   closures>>

\* CaseStateMachine(case).transition_to(new_state, actor) on a freshly loaded
\* case
TransitionTo(c, new_state, actor) ==
    /\ Exists(c)
    /\ LET t == transition_to(c, cases[c], new_state, actor, clock) IN
        /\ cases' = IF t.saved THEN [cases EXCEPT ![c] = t.obj] ELSE cases
        /\ events' = t.rows
        /\ resp' = Resp("transition_to", c, new_state, t.err, t.err = "")
    /\ UNCHANGED <<clock, images, matches, sessions, reqs, searches, report,
                   closures>>

\* MissingPersonViewSet.sign_closure, served without interference
SignClosure(c, u) ==
    /\ Exists(c)
    /\ Visible(u, c)
    /\ LET t == toggle_signature(c, cases[c], Role(u), clock) IN
        /\ cases' = IF t.saved THEN [cases EXCEPT ![c] = t.obj] ELSE cases
        /\ events' = t.rows
        /\ resp' = Resp("sign_closure", c, Role(u), t.err, t.ret)
    /\ UNCHANGED <<clock, images, matches, sessions, reqs, searches, report,
                   closures>>

\* MissingPersonViewSet.sign_closure requested by a user whose role sees
\* every case (get_queryset returns MissingPerson.objects.all())
SignClosureBy(c, role) ==
    /\ Exists(c)
    /\ role \in AllCasesRoles
    /\ LET t == toggle_signature(c, cases[c], role, clock) IN
        /\ cases' = IF t.saved THEN [cases EXCEPT ![c] = t.obj] ELSE cases
        /\ events' = t.rows
        /\ resp' = Resp("sign_closure", c, role, t.err, t.ret)
    /\ UNCHANGED <<clock, images, matches, sessions, reqs, searches, report,
                   closures>>

\* MissingPersonViewSet.upload_image by the case's reporter: the row is
\* created, the embedding extracted (face says whether a face was found)
upload_image(c, face) ==
    /\ Exists(c)
    /\ images' = Append(images,
                        [missing_person |-> c,
                         status |-> IF face THEN "completed" ELSE "failed",
                         face_embedding |-> face])
    /\ events' = <<>>
    /\ resp' = Resp("upload_image", c, "", "", face)
    /\ UNCHANGED <<clock, cases, matches, sessions, reqs, searches, report,
                   closures>>

\* the search going on to the scan with a query that has no face
search_facial_recognition_ScanAnyway(u, consent, face, sim) ==
    /\ LET sid == Len(sessions) + 1
           order == db_images
           best == best_scan(order, sim, 1, 0, 0)
           hit == best.image # 0 /\ best.confidence >= Floor
           up == upsert_match(matches, images[best.image].missing_person,
                              best.image, best.confidence)
           s1 == [NewSession(u, consent) EXCEPT
                    !.total_candidates_searched = Len(order)]
       IN  IF hit /\ up.err = ""
           THEN /\ matches' = up.matches
                /\ sessions' = Append(sessions,
                       [s1 EXCEPT !.best_match = up.match,
                                  !.match_confidence = best.confidence])
                /\ resp' = [Resp("search", "None", "", "", TRUE)
                              EXCEPT !.session = sid, !.match = up.match,
                                     !.confidence = best.confidence]
           ELSE /\ matches' = matches
                /\ sessions' = Append(sessions, s1)
                /\ resp' = [Resp("search", "None", "", "", FALSE)
                              EXCEPT !.session = sid]
    /\ events' = <<>>
    /\ UNCHANGED <<clock, cases, images, reqs, searches, report, closures>>

\* search_facial_recognition (an image is attached): consent is what the
\* request's consent_given parses to, face whether _extract_embedding finds
\* a face in the query, sim the similarity of the query to each stored image
search_facial_recognition(u, consent, face, sim) ==
    /\ LET sid == Len(sessions) + 1
           s0 == NewSession(u, consent)
       IN
       IF ~face
       THEN /\ sessions' = Append(sessions, s0)
            /\ matches' = matches
            /\ resp' = [Resp("search", "None", "", "NoFace", FALSE)
                          EXCEPT !.session = sid]
       ELSE LET order == db_images
                best == best_scan(order, sim, 1, 0, 0)
                hit == best.image # 0 /\ best.confidence >= Floor
                up == upsert_match(matches, images[best.image].missing_person,
                                   best.image, best.confidence)
                s1 == [s0 EXCEPT !.total_candidates_searched = Len(order)]
            IN  IF hit /\ up.err = ""
                THEN /\ matches' = up.matches
                     /\ sessions' = Append(sessions,
                            [s1 EXCEPT !.best_match = up.match,
                                       !.match_confidence = best.confidence])
                     /\ resp' = [Resp("search", "None", "", "", TRUE)
                                   EXCEPT !.session = sid, !.match = up.match,
                                          !.confidence = best.confidence]
                ELSE IF hit
                     THEN \* get_or_create raised: the session was created
                          \* at line 455 and is never updated
                          /\ matches' = matches
                          /\ sessions' = Append(sessions, s0)
                          /\ resp' = [Resp("search", "None", "", up.err, FALSE)
                                        EXCEPT !.session = sid]
                     ELSE /\ matches' = matches
                          /\ sessions' = Append(sessions, s1)
                          /\ resp' = [Resp("search", "None", "", "", FALSE)
                                        EXCEPT !.session = sid]
    /\ events' = <<>>
    /\ UNCHANGED <<clock, cases, images, reqs, searches, report, closures>>

\* close_session finalizing whatever the action is
close_session_AlwaysFinalize(sid, action, notes) ==
    LET s == sessions[sid]
        fin == s.best_match # 0
        m == s.best_match
        mp == matches[m].missing_person
    IN  /\ sessions' = [sessions EXCEPT ![sid].closure_action = action,
                                        ![sid].closure_notes = notes,
                                        ![sid].is_closed = TRUE,
                                        ![sid].closed_at = clock]
        /\ matches' = IF fin
                      THEN [matches EXCEPT ![m].status = "verified",
                                           ![m].verified_by = s.user,
                                           ![m].verification_notes =
                                              <<"Finalized from search session", notes>>]
                      ELSE matches
        /\ cases' = IF fin
                    THEN [cases EXCEPT ![mp] =
                            MissingPerson_save([cases[mp] EXCEPT !.status = "CLOSED"],
                                               clock)]
                    ELSE cases

\* close_session marking the person 'found', the status the closure wrote
\* before the case state machine (tests/test_facial_recognition.py line 166)
close_session_Found(sid, action, notes) ==
    LET s == sessions[sid]
        fin == action = "finalize" /\ s.best_match # 0
        m == s.best_match
        mp == matches[m].missing_person
    IN  /\ sessions' = [sessions EXCEPT ![sid].closure_action = action,
                                        ![sid].closure_notes = notes,
                                        ![sid].is_closed = TRUE,
                                        ![sid].closed_at = clock]
        /\ matches' = IF fin
                      THEN [matches EXCEPT ![m].status = "verified",
                                           ![m].verified_by = s.user,
                                           ![m].verification_notes =
                                              <<"Finalized from search session", notes>>]
                      ELSE matches
        /\ cases' = IF fin
                    THEN [cases EXCEPT ![mp] =
                            MissingPerson_save([cases[mp] EXCEPT !.status = "found"],
                                               clock)]
                    ELSE cases

\* SearchSession.close_session, after the view's checks
close_session(sid, action, notes) ==
    LET s == sessions[sid]
        fin == action = "finalize" /\ s.best_match # 0
        m == s.best_match
        mp == matches[m].missing_person
    IN  /\ sessions' = [sessions EXCEPT ![sid].closure_action = action,
                                        ![sid].closure_notes = notes,
                                        ![sid].is_closed = TRUE,
                                        ![sid].closed_at = clock]
        /\ matches' = IF fin
                      THEN [matches EXCEPT ![m].status = "verified",
                                           ![m].verified_by = s.user,
                                           ![m].verification_notes =
                                              <<"Finalized from search session", notes>>]
                      ELSE matches
        /\ cases' = IF fin
                    THEN [cases EXCEPT ![mp] =
                            MissingPerson_save([cases[mp] EXCEPT !.status = "CLOSED"],
                                               clock)]
                    ELSE cases

\* the closure without the view's checks
Close_NoChecks(sid, action, notes) ==
    /\ sid \in 1..Len(sessions)
    /\ close_session(sid, action, notes)
    /\ resp' = [Resp("close", "None", action, "", TRUE)
                  EXCEPT !.session = sid, !.match = sessions[sid].best_match]
    /\ events' = <<>>
    /\ UNCHANGED <<clock, images, reqs, searches, report, closures>>

\* SearchSessionViewSet.close on one of the caller's sessions
Close(sid, action, notes) ==
    /\ sid \in 1..Len(sessions)
    /\ IF sessions[sid].is_closed
       THEN /\ resp' = [Resp("close", "None", action, "AlreadyClosed", FALSE)
                          EXCEPT !.session = sid]
            /\ UNCHANGED <<sessions, matches, cases>>
       ELSE IF action \notin CLOSURE_CHOICES
            THEN /\ resp' = [Resp("close", "None", action, "InvalidAction", FALSE)
                               EXCEPT !.session = sid]
                 /\ UNCHANGED <<sessions, matches, cases>>
            ELSE /\ close_session(sid, action, notes)
                 /\ resp' = [Resp("close", "None", action, "", TRUE)
                               EXCEPT !.session = sid,
                                      !.match = sessions[sid].best_match]
    /\ events' = <<>>
    /\ UNCHANGED <<clock, images, reqs, searches, report, closures>>

\* A direct call _determine_hitl(confidence), as the unit tests make
determine_hitl(confidence) ==
    /\ resp' = [Resp("_determine_hitl", "None", "", "", _determine_hitl(confidence))
                  EXCEPT !.confidence = confidence]
    /\ events' = <<>>
    /\ UNCHANGED <<clock, cases, images, matches, sessions, reqs, searches, report,
                   closures>>

\* a review that leaves requires_human_review as it was
Review_KeepFlag(u, m, new_status, notes) ==
    /\ m \in 1..Len(matches)
    /\ IF Role(u) \notin CanVerifyMatches
       THEN /\ resp' = [Resp("review", "None", new_status, "Forbidden", FALSE)
                          EXCEPT !.match = m]
            /\ UNCHANGED matches
       ELSE /\ matches' = [matches EXCEPT ![m].status = new_status,
                                          ![m].verified_by = u,
                                          ![m].verification_notes = notes]
            /\ resp' = [Resp("review", "None", new_status, "", TRUE)
                          EXCEPT !.match = m]
    /\ events' = <<>>
    /\ UNCHANGED <<clock, cases, images, sessions, reqs, searches, report,
                   closures>>

\* a review that does not check the caller's permissions
Review_NoPermission(u, m, new_status, notes) ==
    /\ m \in 1..Len(matches)
    /\ matches' = [matches EXCEPT ![m].status = new_status,
                                  ![m].verified_by = u,
                                  ![m].verification_notes = notes,
                                  ![m].requires_human_review = FALSE]
    /\ resp' = [Resp("review", "None", new_status, "", TRUE) EXCEPT !.match = m]
    /\ events' = <<>>
    /\ UNCHANGED <<clock, cases, images, sessions, reqs, searches, report,
                   closures>>

\* FacialMatchViewSet.verify (status 'verified') and .reject
\* (status 'false_positive')
Review(u, m, new_status, notes) ==
    /\ m \in 1..Len(matches)
    /\ IF Role(u) \notin CanVerifyMatches
       THEN /\ resp' = [Resp("review", "None", new_status, "Forbidden", FALSE)
                          EXCEPT !.match = m]
            /\ UNCHANGED matches
       ELSE /\ matches' = [matches EXCEPT ![m].status = new_status,
                                          ![m].verified_by = u,
                                          ![m].verification_notes = notes,
                                          ![m].requires_human_review = FALSE]
            /\ resp' = [Resp("review", "None", new_status, "", TRUE)
                          EXCEPT !.match = m]
    /\ events' = <<>>
    /\ UNCHANGED <<clock, cases, images, sessions, reqs, searches, report,
                   closures>>

----------------------------------------------------------------------------
(* sign_closure served by concurrent workers: each request loads the case  *)
(* (get_object), runs toggle_signature up to its case.save(), which writes *)
(* every field of the in-memory object, then runs the rest on that object  *)

SignLoad(u, c) ==
    /\ reqs[u].pc = "idle"
    /\ Exists(c)
    /\ Visible(u, c)
    /\ reqs' = [reqs EXCEPT ![u] = [IdleReq EXCEPT !.pc = "loaded", !.case = c,
                                                   !.obj = cases[c]]]
    /\ UNCHANGED <<clock, cases, images, matches, sessions, events, resp, searches, report,
                   closures>>

SignSave(u) ==
    /\ reqs[u].pc = "loaded"
    /\ LET r == reqs[u]
           t == toggle_signature_sign(r.obj, Role(u), clock)
       IN  IF t.err # ""
           THEN /\ reqs' = [reqs EXCEPT ![u].pc = "done", ![u].err = t.err]
                /\ resp' = Resp("sign_closure", r.case, Role(u), t.err, FALSE)
                /\ events' = <<>>
                /\ UNCHANGED cases
           ELSE /\ reqs' = [reqs EXCEPT ![u].pc = "saved", ![u].obj = t.obj]
                /\ cases' = [cases EXCEPT ![r.case] = t.obj]
                /\ UNCHANGED <<resp, events>>
    /\ UNCHANGED <<clock, images, matches, sessions, searches, report,
                   closures>>

SignFinish(u) ==
    /\ reqs[u].pc = "saved"
    /\ LET r == reqs[u]
           t == toggle_signature_close(r.case, r.obj, Role(u), clock)
       IN  /\ reqs' = [reqs EXCEPT ![u].pc = "done", ![u].obj = t.obj,
                                   ![u].err = t.err, ![u].ret = t.ret]
           /\ cases' = IF t.saved THEN [cases EXCEPT ![r.case] = t.obj] ELSE cases
           /\ events' = t.rows
           /\ resp' = Resp("sign_closure", r.case, Role(u), t.err, t.ret)
    /\ UNCHANGED <<clock, images, matches, sessions, searches, report,
                   closures>>

Quiet == \A u \in Users : reqs[u].pc = "idle"

NextSign ==
    \/ Tick
    \/ \E u \in Reporters : perform_create("c1", u)
    \/ \E s \in STATUS_CHOICES, u \in Officers : Quiet /\ TransitionTo("c1", s, u)
    \/ \E u \in Users : SignLoad(u, "c1")
    \/ \E u \in Users : SignSave(u)
    \/ \E u \in Users : SignFinish(u)

SpecSign == Init /\ [][NextSign]_vars

----------------------------------------------------------------------------
(* search_facial_recognition served by concurrent workers. get_or_create   *)
(* is a SELECT followed, when no row is found, by an INSERT; FacialMatch   *)
(* has no unique constraint on (missing_person, source_image), so the      *)
(* INSERT never fails. A row that was found is changed in memory and       *)
(* written back whole by match.save().                                     *)

\* Lines 441-512: the session is created, the query (with a face) scanned
SearchScan(r, u, sim) ==
    /\ searches[r].pc = "idle"
    /\ LET sid == Len(sessions) + 1
           order == db_images
           best == best_scan(order, sim, 1, 0, 0)
           hit == best.image # 0 /\ best.confidence >= Floor
       IN  /\ sessions' = Append(sessions,
                 IF hit THEN NewSession(u, TRUE)
                 ELSE [NewSession(u, TRUE) EXCEPT
                         !.total_candidates_searched = Len(order)])
           /\ searches' = [searches EXCEPT ![r] =
                 [IdleSearch EXCEPT !.pc = IF hit THEN "get" ELSE "done",
                                    !.session = sid, !.total = Len(order),
                                    !.image = IF hit THEN best.image ELSE 0,
                                    !.confidence = best.confidence]]
           /\ resp' = IF hit THEN resp
                      ELSE [Resp("search", "None", "", "", FALSE)
                              EXCEPT !.session = sid]
    /\ events' = <<>>
    /\ UNCHANGED <<clock, cases, images, matches, reqs, report, closures>>

\* Line 514: the SELECT of get_or_create
SearchGet(r) ==
    /\ searches[r].pc = "get"
    /\ LET q == searches[r]
           found == match_rows(matches, images[q.image].missing_person, q.image)
       IN  IF found = {}
           THEN /\ searches' = [searches EXCEPT ![r].pc = "create"]
                /\ UNCHANGED resp
           ELSE IF Cardinality(found) > 1
                THEN /\ searches' = [searches EXCEPT ![r].pc = "done",
                            ![r].err = "MultipleObjectsReturned"]
                     /\ resp' = [Resp("search", "None", "",
                                      "MultipleObjectsReturned", FALSE)
                                   EXCEPT !.session = q.session]
                ELSE LET m == CHOOSE x \in found : TRUE IN
                     /\ searches' = [searches EXCEPT ![r].pc = "update",
                            ![r].match = m, ![r].obj = matches[m]]
                     /\ UNCHANGED resp
    /\ events' = <<>>
    /\ UNCHANGED <<clock, cases, images, matches, sessions, reqs, report,
                   closures>>

\* Lines 535-575: the session is saved and the match reported
SearchRespond(r, m) ==
    LET q == searches[r] IN
    /\ sessions' = [sessions EXCEPT
          ![q.session].total_candidates_searched = q.total,
          ![q.session].best_match = m,
          ![q.session].match_confidence = q.confidence]
    /\ searches' = [searches EXCEPT ![r].pc = "done", ![r].match = m]
    /\ resp' = [Resp("search", "None", "", "", TRUE)
                  EXCEPT !.session = q.session, !.match = m,
                         !.confidence = q.confidence]
    /\ events' = <<>>

\* Lines 514-526: the INSERT of get_or_create, and the rest of the handler
SearchCreate(r) ==
    /\ searches[r].pc = "create"
    /\ LET q == searches[r] IN
        /\ matches' = Append(matches,
              NewMatch(images[q.image].missing_person, q.image, q.confidence,
                       _determine_hitl(q.confidence)))
        /\ SearchRespond(r, Len(matches) + 1)
    /\ UNCHANGED <<clock, cases, images, reqs, report, closures>>

\* Lines 527-531: the row that was found is written back, and the rest of
\* the handler
SearchUpdate(r) ==
    /\ searches[r].pc = "update"
    /\ LET q == searches[r] IN
        /\ matches' = [matches EXCEPT ![q.match] =
              [q.obj EXCEPT !.match_confidence = q.confidence,
                            !.distance_metric = 1000 - q.confidence,
                            !.requires_human_review = _determine_hitl(q.confidence)]]
        /\ SearchRespond(r, q.match)
    /\ UNCHANGED <<clock, cases, images, reqs, report, closures>>

\* the worker takes its next request
SearchNext(r) ==
    /\ searches[r].pc = "done"
    /\ searches' = [searches EXCEPT ![r] = IdleSearch]
    /\ UNCHANGED <<clock, cases, images, matches, sessions, events, resp, reqs,
                   report, closures>>

NextRace ==
    \/ \E u \in Reporters : perform_create("c1", u)
    \/ images = <<>> /\ upload_image("c1", TRUE)
    \/ \E r \in SearchReqs, u \in Reporters,
          sim \in [1..Len(images) -> RaceConfidences] :
            Len(sessions) < MaxRaceSessions /\ SearchScan(r, u, sim)
    \/ \E r \in SearchReqs : SearchGet(r)
    \/ \E r \in SearchReqs : SearchCreate(r)
    \/ \E r \in SearchReqs : SearchUpdate(r)
    \/ \E r \in SearchReqs : SearchNext(r)

SpecRace == Init /\ [][NextRace]_vars

----------------------------------------------------------------------------
(* The case lifecycle alone *)

NextCase ==
    \/ Tick
    \/ \E c \in CaseIds, u \in Reporters : perform_create(c, u)
    \/ \E c \in CaseIds, s \in STATUS_CHOICES, u \in Officers : TransitionTo(c, s, u)
    \/ \E c \in CaseIds, u \in Users : SignClosure(c, u)

SpecCase == Init /\ [][NextCase]_vars

(* Signatures, transitions and session closures of one case, served one   *)
(* after another                                                           *)

NextSigned ==
    \/ \E u \in Reporters : perform_create("c1", u)
    \/ images = <<>> /\ upload_image("c1", TRUE)
    \/ \E u \in Reporters, sim \in [1..Len(images) -> SomeConfidences] :
          Len(sessions) < MaxCaseSessions
          /\ search_facial_recognition(u, TRUE, TRUE, sim)
    \/ \E sid \in 1..Len(sessions), a \in {"finalize", "save"} :
          Close(sid, a, "note")
    \/ \E s \in STATUS_CHOICES, u \in Officers : TransitionTo("c1", s, u)
    \/ \E u \in Users : SignClosure("c1", u)

SpecSigned == Init /\ [][NextSigned]_vars

(* Signature requests of the signing roles and of an oversight role       *)

NextOfficial ==
    \/ \E c \in CaseIds, u \in Reporters : perform_create(c, u)
    \/ \E c \in CaseIds, s \in STATUS_CHOICES, u \in Officers : TransitionTo(c, s, u)
    \/ \E c \in CaseIds, u \in Users : SignClosure(c, u)
    \/ \E c \in CaseIds, role \in AllCasesRoles : SignClosureBy(c, role)

SpecOfficial == Init /\ [][NextOfficial]_vars

(* Cases created through the report endpoint and by the model's manager,  *)
(* and their transitions                                                   *)

NextCreate ==
    \/ Tick
    \/ \E c \in CaseIds, u \in Reporters : perform_create(c, u)
    \/ \E c \in CaseIds, u \in Users : objects_create(c, u)
    \/ \E c \in CaseIds, s \in STATUS_CHOICES, u \in Officers : TransitionTo(c, s, u)

SpecCreate == Init /\ [][NextCreate]_vars

(* Searches and reviews over the images of one case *)

NextSearch ==
    \/ \E u \in Reporters : perform_create("c1", u)
    \/ \E f \in BOOLEAN : Len(images) < MaxImages /\ upload_image("c1", f)
    \/ \E u \in Reporters, consent \in BOOLEAN, f \in BOOLEAN,
          sim \in [1..Len(images) -> Confidences] :
            Len(sessions) < MaxSessions
            /\ search_facial_recognition(u, consent, f, sim)
    \/ \E u \in Users, m \in 1..MaxImages, st \in {"verified", "false_positive"} :
          Review(u, m, st, "note")

SpecSearch == Init /\ [][NextSearch]_vars

(* The review gate: consented searches against one enrolled image, with    *)
(* reviews in between, and direct calls of _determine_hitl                 *)

NextGate ==
    \/ \E u \in Reporters : perform_create("c1", u)
    \/ images = <<>> /\ upload_image("c1", TRUE)
    \/ \E u \in Reporters, sim \in [1..Len(images) -> Confidences] :
          Len(sessions) < MaxGateSessions
          /\ search_facial_recognition(u, TRUE, TRUE, sim)
    \/ \E u \in Users, st \in {"verified", "false_positive"}, n \in ReviewNotes :
          Review(u, 1, st, n)
    \/ \E c \in HitlInputs : determine_hitl(c)

SpecGate == Init /\ [][NextGate]_vars

(* The match ledger: consented searches, with and without a face in the    *)
(* query, over the images of one case                                      *)

NextLedger ==
    \/ \E u \in Reporters : perform_create("c1", u)
    \/ \E f \in BOOLEAN : Len(images) < MaxLedgerImages /\ upload_image("c1", f)
    \/ \E u \in Reporters, f \in BOOLEAN,
          sim \in [1..Len(images) -> LedgerConfidences] :
            Len(sessions) < MaxLedgerSessions
            /\ search_facial_recognition(u, TRUE, f, sim)

SpecLedger == Init /\ [][NextLedger]_vars

(* The matcher: searches over stored images with and without an embedding, *)
(* with equal and with different similarities                              *)

NextScan ==
    \/ \E u \in Reporters : perform_create("c1", u)
    \/ \E f \in BOOLEAN : Len(images) < MaxScanImages /\ upload_image("c1", f)
    \/ \E u \in Reporters, sim \in [1..Len(images) -> ScanConfidences] :
          Len(sessions) < MaxScanSessions
          /\ search_facial_recognition(u, TRUE, TRUE, sim)

SpecScan == Init /\ [][NextScan]_vars

(* Session closure: searches with and without a match, and closure         *)
(* requests with every action token, on open and on closed sessions        *)

NextClose ==
    \/ Tick
    \/ \E u \in Reporters : perform_create("c1", u)
    \/ images = <<>> /\ upload_image("c1", TRUE)
    \/ \E u \in Reporters, sim \in [1..Len(images) -> CloseConfidences] :
          Len(sessions) < MaxCloseSessions
          /\ search_facial_recognition(u, TRUE, TRUE, sim)
    \/ \E sid \in 1..Len(sessions), a \in CloseActions, n \in ReviewNotes :
          Close(sid, a, n)

SpecClose == Init /\ [][NextClose]_vars

(* SearchSessionViewSet.close served by concurrent workers. The view loads *)
(* the session, tests is_closed on the object it loaded, and close_session *)
(* writes that object back whole with self.save(); nothing locks the row   *)
(* between the test and the write.                                         *)

\* Lines 393-405: get_object, the is_closed test and the action test
CloseCheck(r, sid, action, notes) ==
    /\ closures[r].pc = "idle"
    /\ sid \in 1..Len(sessions)
    /\ LET obj == sessions[sid]
           q == [IdleClose EXCEPT !.session = sid, !.action = action,
                                  !.notes = notes, !.obj = obj]
       IN  IF obj.is_closed
           THEN /\ closures' = [closures EXCEPT ![r] =
                      [q EXCEPT !.pc = "done", !.err = "AlreadyClosed"]]
                /\ resp' = [Resp("close", "None", action, "AlreadyClosed", FALSE)
                              EXCEPT !.session = sid]
                /\ events' = <<>>
           ELSE IF action \notin CLOSURE_CHOICES
                THEN /\ closures' = [closures EXCEPT ![r] =
                           [q EXCEPT !.pc = "done", !.err = "InvalidAction"]]
                     /\ resp' = [Resp("close", "None", action, "InvalidAction", FALSE)
                                   EXCEPT !.session = sid]
                     /\ events' = <<>>
                ELSE /\ closures' = [closures EXCEPT ![r] =
                           [q EXCEPT !.pc = "checked"]]
                     /\ UNCHANGED <<resp, events>>
    /\ UNCHANGED <<clock, cases, images, matches, sessions, reqs, searches,
                   report>>

\* Line 407 and the response: close_session on the object the request
\* loaded. self.best_match and its missing_person are fetched when they are
\* first read, after self.save().
CloseSession(r) ==
    /\ closures[r].pc = "checked"
    /\ LET q == closures[r]
           sid == q.session
           fin == q.action = "finalize" /\ q.obj.best_match # 0
           m == q.obj.best_match
           mp == matches[m].missing_person
       IN  /\ sessions' = [sessions EXCEPT ![sid] =
                  [q.obj EXCEPT !.closure_action = q.action,
                                !.closure_notes = q.notes,
                                !.is_closed = TRUE,
                                !.closed_at = clock]]
           /\ matches' = IF fin
                         THEN [matches EXCEPT ![m].status = "verified",
                                              ![m].verified_by = q.obj.user,
                                              ![m].verification_notes =
                                                 <<"Finalized from search session",
                                                   q.notes>>]
                         ELSE matches
           /\ cases' = IF fin
                       THEN [cases EXCEPT ![mp] =
                               MissingPerson_save(
                                  [cases[mp] EXCEPT !.status = "CLOSED"], clock)]
                       ELSE cases
           /\ resp' = [Resp("close", "None", q.action, "", TRUE)
                         EXCEPT !.session = sid, !.match = q.obj.best_match]
    /\ closures' = [closures EXCEPT ![r].pc = "done"]
    /\ events' = <<>>
    /\ UNCHANGED <<clock, images, reqs, searches, report>>

NextTwice ==
    \/ Tick
    \/ \E u \in Reporters : perform_create("c1", u)
    \/ images = <<>> /\ upload_image("c1", TRUE)
    \/ \E u \in Reporters, sim \in [1..Len(images) -> CloseConfidences] :
          Len(sessions) < MaxCloseSessions
          /\ search_facial_recognition(u, TRUE, TRUE, sim)
    \/ \E r \in CloseReqs, sid \in 1..Len(sessions), a \in CloseActions :
          CloseCheck(r, sid, a, r)
    \/ \E r \in CloseReqs : CloseSession(r)

SpecTwice == Init /\ [][NextTwice]_vars

(* Bias audits: disaggregated_evaluation applied to prediction lists of    *)
(* one, two or three blocks, and to the empty list                         *)

\* cnt[1] records of the group, cnt[2] of them true positives and the rest
\* false negatives
Block(g, s, a, cnt) ==
    LET rec(p) == [y_true |-> 1, y_pred |-> p, gender |-> g, skin_type |-> s,
                   age_group |-> a]
    IN  [k \in {rec(p) : p \in {x \in {0, 1} :
                                   IF x = 1 THEN cnt[2] > 0 ELSE cnt[1] > cnt[2]}}
           |-> IF k.y_pred = 1 THEN cnt[2] ELSE cnt[1] - cnt[2]]

FirstBlocks ==
    {Block("male", "fitzpatrick_i", "adult", c) : c \in AuditCounts}

SecondBlocks ==
    {Block(g, s, a, c) : g \in Genders, s \in SkinTypes, a \in AgeGroups,
                         c \in AuditCounts}

ThirdBlocks ==
    {Block(g, s, "adult", <<100, 85>>) : g \in Genders, s \in SkinTypes}

AuditInputs ==
    {EmptyBag} \cup FirstBlocks
    \cup {b1 (+) b2 : b1 \in FirstBlocks, b2 \in SecondBlocks}
    \cup {b1 (+) b2 (+) b3 : b1 \in FirstBlocks, b2 \in SecondBlocks,
                              b3 \in ThirdBlocks}

InitAudit ==
    /\ clock = 1
    /\ cases = <<>>
    /\ images = <<>>
    /\ matches = <<>>
    /\ sessions = <<>>
    /\ events = <<>>
    /\ resp = NoResp
    /\ reqs = [u \in Users |-> IdleReq]
    /\ searches = [r \in SearchReqs |-> IdleSearch]
    /\ closures = [r \in CloseReqs |-> IdleClose]
    /\ \E p \in AuditInputs : report = [NoReport EXCEPT !.predictions = p]

\* BiasAuditor().disaggregated_evaluation(predictions)
Audit ==
    /\ ~report.ran
    /\ LET e == disaggregated_evaluation(report.predictions) IN
        report' = [report EXCEPT !.ran = TRUE, !.err = e.err, !.out = e.out]
    /\ UNCHANGED <<clock, cases, images, matches, sessions, events, resp, reqs,
                   searches, closures>>

NextAudit == Audit

SpecAudit == InitAudit /\ [][NextAudit]_vars

(* Threshold tuning: tune_thresholds applied to prediction lists of one or *)
(* two gender groups                                                       *)

\* the records of a gender group: ten positives, and negatives as profile
TuneBlock(g, profile) ==
    LET rec(t, c) == [y_true |-> t, y_pred |-> IF c >= ReviewHigh THEN 1 ELSE 0,
                      confidence |-> c, gender |-> g,
                      skin_type |-> "unknown", age_group |-> "adult"]
    IN  (rec(1, 970) :> 10)
        @@ [k \in {rec(0, c) : c \in DOMAIN profile} |-> profile[k.confidence]]

TuneInputs ==
    {TuneBlock("male", p) : p \in NegativeProfiles}
    \cup {TuneBlock("male", p) (+) TuneBlock("female", q) :
            p \in NegativeProfiles, q \in NegativeProfiles}

InitTune ==
    /\ clock = 1
    /\ cases = <<>>
    /\ images = <<>>
    /\ matches = <<>>
    /\ sessions = <<>>
    /\ events = <<>>
    /\ resp = NoResp
    /\ reqs = [u \in Users |-> IdleReq]
    /\ searches = [r \in SearchReqs |-> IdleSearch]
    /\ closures = [r \in CloseReqs |-> IdleClose]
    /\ \E p \in TuneInputs : report = [NoReport EXCEPT !.predictions = p]

\* a call of tune_thresholds on the predictions
Tune(axis, target_fpr) ==
    /\ ~report.ran
    /\ report' = [report EXCEPT !.ran = TRUE,
                    !.out = [axis |-> axis, target_fpr |-> target_fpr,
                             optimal |-> tune_thresholds(report.predictions, axis,
                                                         target_fpr)]]
    /\ UNCHANGED <<clock, cases, images, matches, sessions, events, resp, reqs,
                   searches, closures>>

NextTune ==
    \E i \in 1..Len(AXES), t \in TargetFprs : Tune(AXES[i], t)

SpecTune == InitTune /\ [][NextTune]_vars

(* The management command run_bias_audit over the stored FacialMatch rows  *)

\* lines 56-59: the rows the command evaluates
evaluated_matches ==
    {m \in 1..Len(matches) : matches[m].status \in {"verified", "false_positive"}}

\* lines 76-89: the prediction record of a match
prediction_of(match) ==
    LET person == cases[match.missing_person]
        gender == IF person.gender = "" THEN "unknown" ELSE person.gender
    IN  [y_true |-> IF match.status = "verified" THEN 1 ELSE 0,
         y_pred |-> IF match.match_confidence >= ReviewHigh THEN 1 ELSE 0,
         gender |-> CASE gender = "male" -> "male"
                      [] gender = "female" -> "female"
                      [] gender = "other" -> "non_binary"
                      [] OTHER -> "unknown",
         skin_type |-> "unknown",
         age_group |-> IF person.age >= AdultAge THEN "adult" ELSE "child"]

\* the predictions list, as a bag
build_predictions ==
    [rec \in {prediction_of(matches[m]) : m \in evaluated_matches} |->
        Cardinality({m \in evaluated_matches : prediction_of(matches[m]) = rec})]

\* the command reporting whatever the number of evaluated matches
run_bias_audit_NoMinimum(min_samples, dry_run) ==
    /\ LET total == Cardinality(evaluated_matches)
           predictions == build_predictions
           e == disaggregated_evaluation(predictions)
       IN  report' = IF e.err # ""
                     THEN [NoReport EXCEPT !.ran = TRUE,
                              !.err = "CommandError: No predictions provided"]
                     ELSE [predictions |-> predictions, ran |-> TRUE,
                           err |-> IF e.out.audit_passed THEN ""
                                   ELSE "CommandError: Bias audit FAILED",
                           out |-> e.out, need |-> 0, found |-> 0,
                           saved |-> ~dry_run]
    /\ UNCHANGED <<clock, cases, images, matches, sessions, events, resp, reqs,
                   searches, closures>>

\* Command.handle with options --min-samples and --dry-run
run_bias_audit(min_samples, dry_run) ==
    /\ LET total == Cardinality(evaluated_matches)
           predictions == build_predictions
           e == disaggregated_evaluation(predictions)
       IN  report' =
             IF total < min_samples
             THEN [NoReport EXCEPT !.ran = TRUE,
                      !.err = "CommandError: Not enough evaluated matches",
                      !.need = min_samples, !.found = total]
             ELSE IF e.err # ""
                  THEN [NoReport EXCEPT !.ran = TRUE,
                           !.err = "CommandError: No predictions provided"]
                  ELSE [predictions |-> predictions, ran |-> TRUE,
                        err |-> IF e.out.audit_passed THEN ""
                                ELSE "CommandError: Bias audit FAILED",
                        out |-> e.out, need |-> 0, found |-> 0,
                        saved |-> ~dry_run]
    /\ UNCHANGED <<clock, cases, images, matches, sessions, events, resp, reqs,
                   searches, closures>>

NextCommand ==
    \/ \E u \in Reporters, g \in PersonGenders, a \in PersonAges :
          perform_create_person("c1", u, g, a)
    \/ Len(images) < MaxCommandImages /\ upload_image("c1", TRUE)
    \/ \E u \in Reporters, sim \in [1..Len(images) -> CommandConfidences] :
          Len(sessions) < MaxCommandSessions
          /\ search_facial_recognition(u, TRUE, TRUE, sim)
    \/ \E m \in 1..Len(matches), st \in {"verified", "false_positive"} :
          Review("officer01", m, st, "")
    \/ \E n \in MinSamples, dry \in BOOLEAN : run_bias_audit(n, dry)

SpecCommand == Init /\ [][NextCommand]_vars

(* One case with one enrolled image, from report to closure: searches,     *)
(* reviews, session closures, transitions and signatures                   *)

Next ==
    \/ Tick
    \/ \E u \in Reporters : perform_create("c1", u)
    \/ images = <<>> /\ upload_image("c1", TRUE)
    \/ \E u \in Reporters, sim \in [1..Len(images) -> SomeConfidences] :
          Len(sessions) < MaxCaseSessions
          /\ search_facial_recognition(u, TRUE, TRUE, sim)
    \/ \E st \in {"verified", "false_positive"} : Review("officer01", 1, st, "note")
    \/ \E sid \in 1..MaxCaseSessions, a \in {"finalize", "save"} :
          Close(sid, a, "note")
    \/ \E s \in STATUS_CHOICES, u \in Officers : TransitionTo("c1", s, u)
    \/ \E u \in Users : SignClosure("c1", u)

Spec == Init /\ [][Next]_vars

----------------------------------------------------------------------------
(* Properties *)

\* The transition table as the specification prints it
TransitionTable ==
    {<<"REPORTED", "UNDER_INVESTIGATION">>, <<"REPORTED", "CLOSED">>,
     <<"UNDER_INVESTIGATION", "MATCH_FOUND">>, <<"UNDER_INVESTIGATION", "NO_MATCH">>,
     <<"UNDER_INVESTIGATION", "CLOSED">>,
     <<"MATCH_FOUND", "PENDING_CLOSURE">>, <<"MATCH_FOUND", "UNDER_INVESTIGATION">>,
     <<"MATCH_FOUND", "CLOSED">>,
     <<"PENDING_CLOSURE", "CLOSED">>, <<"PENDING_CLOSURE", "UNDER_INVESTIGATION">>,
     <<"NO_MATCH", "UNDER_INVESTIGATION">>, <<"NO_MATCH", "CLOSED">>}

Signed(obj, role) ==
    IF role = "family_member" THEN obj.dual_signature_family
    ELSE obj.dual_signature_police

OtherRole(role) ==
    IF role = "family_member" THEN "police_officer" ELSE "family_member"

C3_DualSignatureCloses ==
    (/\ resp.op = "sign_closure"
     /\ resp.err # "ValueError"
     /\ cases[resp.case].dual_signature_family
     /\ cases[resp.case].dual_signature_police)
    => (cases[resp.case].status = "CLOSED" /\ resp.ret)

C9_NotSignable ==
    [][\A c \in CaseIds, u \in Users :
         SignClosure(c, u) =>
            IF cases[c].status \in {"REPORTED", "UNDER_INVESTIGATION", "NO_MATCH", "CLOSED"}
            THEN resp'.err = "ValueError" /\ ~resp'.ret /\ cases'[c] = cases[c]
            ELSE /\ cases[c].status \in {"MATCH_FOUND", "PENDING_CLOSURE"}
                 /\ resp'.err # "ValueError"]_vars

C9_Witness ==
    /\ resp.op = "sign_closure"
    /\ resp.err = "ValueError"
    /\ cases[resp.case].status = "CLOSED"

\* C2: a case whose status is CLOSED keeps that status in every step
\* (transition_to, sign_closure, session closure, finalize included).
C2_ClosedTerminal ==
    [][\A c \in DOMAIN cases :
         cases[c].status = "CLOSED" => cases'[c].status = "CLOSED"]_vars

\* a finalize closure served for a case that had been closed before
C2_Witness ==
    /\ resp.op = "close"
    /\ resp.arg = "finalize"
    /\ resp.err = ""
    /\ resp.match # 0
    /\ cases[matches[resp.match].missing_person].status = "CLOSED"
    /\ cases[matches[resp.match].missing_person].resolved_at
          < sessions[resp.session].closed_at

\* C4: closing a session with 'finalize' while its match is flagged for
\* human review and still pending_review neither verifies the match nor
\* changes its case.
C4_ReviewGate ==
    [][\A sid \in 1..Len(sessions) :
         (/\ Close(sid, "finalize", "note")
          /\ ~sessions[sid].is_closed
          /\ sessions[sid].best_match # 0
          /\ matches[sessions[sid].best_match].requires_human_review
          /\ matches[sessions[sid].best_match].status = "pending_review")
         => /\ matches'[sessions[sid].best_match].status = "pending_review"
            /\ cases' = cases]_vars

\* C7: a CLOSED case has a resolution timestamp, and its retention expiry
\* equals it.
C7_ClosedRetention ==
    \A c \in DOMAIN cases :
        cases[c].status = "CLOSED"
        => /\ cases[c].resolved_at # NoTime
           /\ cases[c].retention_expiry_date = cases[c].resolved_at

\* C5: a search without consent is answered with an error and writes no
\* FacialMatch row.
C5_ConsentRequired ==
    [][\A u \in Reporters, f \in BOOLEAN, sim \in [1..Len(images) -> Confidences] :
         search_facial_recognition(u, FALSE, f, sim)
         => (matches' = matches /\ resp'.err # "" /\ ~resp'.ret)]_vars

\* C6: _determine_hitl(c) is true exactly for 0.90 <= c < 0.98, and the
\* FacialMatch row a search has just created or updated carries that value
\* for the search's best confidence.
C6_ReviewFlag ==
    /\ resp.op = "_determine_hitl"
       => (resp.ret <=> (900 <= resp.confidence /\ resp.confidence < 980))
    /\ (resp.op = "search" /\ resp.ret)
       => /\ matches[resp.match].match_confidence = resp.confidence
          /\ matches[resp.match].requires_human_review
               = (900 <= resp.confidence /\ resp.confidence < 980)

\* a second search that updated the row of the first, at the lower boundary
C6_Witness ==
    /\ Len(sessions) = 2
    /\ resp.op = "search"
    /\ resp.session = 2
    /\ resp.ret
    /\ sessions[1].best_match = resp.match
    /\ sessions[1].match_confidence = 980
    /\ resp.confidence = 900
    /\ matches[resp.match].requires_human_review

\* C10: when the family member's and the police officer's sign_closure
\* requests for a signable case have both been served, both flags are
\* stored true, the case is CLOSED, and exactly one of the two requests
\* made the closing transition.
C10_ConcurrentSignatures ==
    (\A u \in Users : reqs[u].pc = "done" /\ reqs[u].err # "ValueError")
    => /\ cases["c1"].dual_signature_family
       /\ cases["c1"].dual_signature_police
       /\ cases["c1"].status = "CLOSED"
       /\ Cardinality({u \in Users : reqs[u].ret}) = 1

\* C11: in sequential operation no two FacialMatch rows share a
\* (case, source image) pair; a search that reports a match for a pair that
\* had a row rewrites that row's confidence, distance and review flag and
\* creates no row; for a pair without a row it appends exactly one row, with
\* status pending_review; every other row is left as it was.
C11_MatchLedgerUpsert ==
    /\ [](\A m1, m2 \in 1..Len(matches) :
            (/\ matches[m1].missing_person = matches[m2].missing_person
             /\ matches[m1].source_image = matches[m2].source_image)
            => m1 = m2)
    /\ [][(/\ resp'.op = "search"
            /\ Len(sessions') = Len(sessions) + 1
            /\ resp'.ret) =>
            LET m == resp'.match
                had == {x \in 1..Len(matches) :
                          /\ matches[x].missing_person = matches'[m].missing_person
                          /\ matches[x].source_image = matches'[m].source_image}
            IN  /\ matches'[m].match_confidence = resp'.confidence
                /\ matches'[m].distance_metric = 1000 - resp'.confidence
                /\ matches'[m].requires_human_review
                     = (900 <= resp'.confidence /\ resp'.confidence < 980)
                /\ IF had # {}
                   THEN /\ had = {m}
                        /\ Len(matches') = Len(matches)
                        /\ matches'[m].status = matches[m].status
                        /\ \A x \in 1..Len(matches) : x # m => matches'[x] = matches[x]
                   ELSE /\ Len(matches') = Len(matches) + 1
                        /\ m = Len(matches')
                        /\ matches'[m].status = "pending_review"
                        /\ \A x \in 1..Len(matches) : matches'[x] = matches[x]]_vars

\* a second search that rewrote the row the first one created
C11_Witness ==
    /\ Len(sessions) = 2
    /\ Len(matches) = 1
    /\ resp.op = "search"
    /\ resp.session = 2
    /\ resp.ret
    /\ sessions[1].best_match = 1
    /\ resp.match = 1
    /\ sessions[1].match_confidence = 990
    /\ resp.confidence = 950
    /\ matches[1].match_confidence = 950
    /\ matches[1].requires_human_review

\* C12: when two concurrent searches that chose the same (case, source
\* image) pair have both been served, the pair has exactly one FacialMatch
\* row, and it holds the confidence and review flag one of the two wrote.
C12_ConcurrentUpsert ==
    (/\ Len(sessions) = 2
     /\ \A r \in SearchReqs : searches[r].pc = "done" /\ searches[r].image = 1)
    => LET rows == {m \in 1..Len(matches) :
                      /\ matches[m].missing_person = images[1].missing_person
                      /\ matches[m].source_image = 1}
       IN  /\ Cardinality(rows) = 1
           /\ \A m \in rows : \E r \in SearchReqs :
                 /\ matches[m].match_confidence = searches[r].confidence
                 /\ matches[m].requires_human_review
                      = (900 <= searches[r].confidence /\ searches[r].confidence < 980)

\* the best confidence of a scan: the largest similarity over the images
\* that are completed and have an embedding, 0 when there is none
Population == {i \in 1..Len(images) :
                 images[i].status = "completed" /\ images[i].face_embedding}

BestOver(sim) ==
    IF Population = {} THEN 0
    ELSE CHOOSE x \in {sim[i] : i \in Population} :
            \A i \in Population : sim[i] <= x

\* C13: a search whose query has a face reports match_found and creates or
\* updates a FacialMatch row (holding the best confidence, referenced by the
\* session) exactly when the best confidence over the population is at
\* least 0.50; otherwise it reports no match, leaves the FacialMatch rows as
\* they were and stores no best match on the session.
C13_PlausibilityFloor ==
    [][\A u \in Reporters, sim \in [1..Len(images) -> LedgerConfidences] :
         search_facial_recognition(u, TRUE, TRUE, sim) =>
            LET sid == Len(sessions') IN
            IF BestOver(sim) >= 500
            THEN /\ resp'.ret
                 /\ resp'.match \in 1..Len(matches')
                 /\ matches'[resp'.match].match_confidence = BestOver(sim)
                 /\ sessions'[sid].best_match = resp'.match
                 /\ sessions'[sid].match_confidence = BestOver(sim)
            ELSE /\ ~resp'.ret
                 /\ resp'.err = ""
                 /\ matches' = matches
                 /\ sessions'[sid].best_match = 0]_vars

\* a search at exactly 0.50 that was promoted, after one at 0.499 that was
\* not
C13_Witness ==
    /\ Len(sessions) = 2
    /\ sessions[1].best_match = 0
    /\ sessions[1].total_candidates_searched > 0
    /\ resp.op = "search"
    /\ resp.session = 2
    /\ resp.ret
    /\ resp.confidence = 500
    /\ matches[resp.match].match_confidence = 500

\* C14: verify (reject) by a caller with can_verify_matches sets the match's
\* status to verified (false_positive), records the caller as verifier and
\* the request's notes, and clears requires_human_review, whatever the
\* match's confidence and flag were.
C14_ReviewClearsFlag ==
    [][\A u \in Officers, m \in 1..Len(matches),
          st \in {"verified", "false_positive"}, n \in ReviewNotes :
         Review(u, m, st, n) =>
            /\ resp'.err = ""
            /\ matches'[m].status = st
            /\ matches'[m].verified_by = u
            /\ matches'[m].verification_notes = n
            /\ ~matches'[m].requires_human_review
            /\ matches'[m].match_confidence = matches[m].match_confidence]_vars

\* a match in the review band, flagged by its search, rejected by the officer
C14_Witness ==
    /\ resp.op = "review"
    /\ resp.arg = "false_positive"
    /\ resp.err = ""
    /\ matches[resp.match].status = "false_positive"
    /\ matches[resp.match].verified_by = "officer01"
    /\ matches[resp.match].match_confidence = 975
    /\ ~matches[resp.match].requires_human_review

\* C15: verify or reject by a caller without can_verify_matches is answered
\* Forbidden and leaves every FacialMatch row as it was.
C15_ReviewForbidden ==
    [][\A u \in Users, m \in 1..Len(matches),
          st \in {"verified", "false_positive"}, n \in ReviewNotes :
         (Review(u, m, st, n) /\ Role(u) = "family_member") =>
            /\ resp'.err = "Forbidden"
            /\ ~resp'.ret
            /\ matches' = matches]_vars

\* the family member's verify of a flagged match, refused
C15_Witness ==
    /\ resp.op = "review"
    /\ resp.arg = "verified"
    /\ resp.err = "Forbidden"
    /\ matches[resp.match].status = "pending_review"
    /\ matches[resp.match].verified_by = NoUser
    /\ matches[resp.match].requires_human_review

\* C18: a search whose query has no detectable face ends with the
\* unprocessable result; its SearchSession is recorded, open, with zero
\* candidates scanned and no best match; no FacialMatch row is created or
\* changed, and the earlier sessions are left as they were.
C18_NoFaceDetected ==
    [][\A u \in Reporters, sim \in [1..Len(images) -> LedgerConfidences] :
         search_facial_recognition(u, TRUE, FALSE, sim) =>
            LET sid == Len(sessions) + 1 IN
            /\ resp'.err = "NoFace"
            /\ ~resp'.ret
            /\ Len(sessions') = sid
            /\ resp'.session = sid
            /\ sessions'[sid].user = u
            /\ sessions'[sid].total_candidates_searched = 0
            /\ sessions'[sid].best_match = 0
            /\ ~sessions'[sid].is_closed
            /\ \A x \in 1..Len(sessions) : sessions'[x] = sessions[x]
            /\ matches' = matches]_vars

\* a query without a face, searched while an eligible image and a match for
\* it exist
C18_Witness ==
    /\ resp.op = "search"
    /\ resp.err = "NoFace"
    /\ resp.session = 2
    /\ Len(sessions) = 2
    /\ sessions[2].total_candidates_searched = 0
    /\ sessions[2].best_match = 0
    /\ sessions[1].best_match = 1
    /\ Len(matches) = 1
    /\ Population # {}

\* C16: a closure request on a session that is already closed, or with an
\* action token outside save, finalize, search_again, no_match, is answered
\* with a validation error and leaves every session (is_closed,
\* closure_action, closure_notes, closed_at), case and FacialMatch as it was.
C16_ClosureRejected ==
    [][\A sid \in 1..Len(sessions), a \in CloseActions, n \in ReviewNotes :
         (/\ Close(sid, a, n)
          /\ \/ sessions[sid].is_closed
             \/ a \notin {"save", "finalize", "search_again", "no_match"})
         => /\ resp'.err \in {"AlreadyClosed", "InvalidAction"}
            /\ ~resp'.ret
            /\ sessions' = sessions
            /\ cases' = cases
            /\ matches' = matches]_vars

\* a finalize, on a later day and with other notes, of a session that was
\* closed with 'save' and has a match: refused
C16_Witness ==
    /\ resp.op = "close"
    /\ resp.arg = "finalize"
    /\ resp.err = "AlreadyClosed"
    /\ sessions[resp.session].closure_action = "save"
    /\ sessions[resp.session].closure_notes = "note"
    /\ sessions[resp.session].best_match # 0
    /\ sessions[resp.session].closed_at < clock
    /\ matches[sessions[resp.session].best_match].status = "pending_review"
    /\ cases["c1"].status = "REPORTED"

C19_StatusChangeAudited ==
    [][\A c \in DOMAIN cases :
         cases'[c].status # cases[c].status
         => \E i \in 1..Len(events') : events'[i].case_id = c]_vars

\* the spread of an axis of a report: the highest less the lowest accuracy
\* (in ten-thousandths) of its groups with at least one sample
Spread(axis_data) ==
    LET accs == {axis_data[g].accuracy :
                    g \in {x \in DOMAIN axis_data : axis_data[x].total > 0}}
    IN  IF accs = {} THEN 0
        ELSE (CHOOSE a \in accs : \A b \in accs : b <= a)
             - (CHOOSE a \in accs : \A b \in accs : a <= b)

\* C20: an audit's report has a variance alert for an axis exactly when the
\* spread of the axis exceeds 0.02, and audit_passed is true exactly when
\* there is no alert.
C20_VarianceVerdict ==
    (report.ran /\ report.err = "") =>
        LET out == report.out
            alerts == {out.variance_alerts[i] : i \in 1..Len(out.variance_alerts)}
        IN  /\ ("gender" \in alerts) <=> (Spread(out.by_gender) > 200)
            /\ ("skin_type" \in alerts) <=> (Spread(out.by_skin_type) > 200)
            /\ ("age_group" \in alerts) <=> (Spread(out.by_age_group) > 200)
            /\ out.audit_passed <=> (alerts = {})

C22_ResignNoOp ==
    [][\A c \in DOMAIN cases :
         /\ cases[c].dual_signature_family => cases'[c].dual_signature_family
         /\ cases[c].dual_signature_police => cases'[c].dual_signature_police
         /\ \A u \in Users :
              (/\ SignClosure(c, u)
               /\ Signed(cases[c], Role(u))
               /\ ~Signed(cases[c], OtherRole(Role(u))))
              => /\ cases'[c].status = cases[c].status
                 /\ cases'[c].dual_signature_family = cases[c].dual_signature_family
                 /\ cases'[c].dual_signature_police = cases[c].dual_signature_police]_vars

\* C22, amended: no step (transition_to, sign_closure, session closure)
\* clears a signature flag; sign_closure by a role whose flag is set (the
\* other flag not set) leaves both flags as they were, leaves a
\* PENDING_CLOSURE case PENDING_CLOSURE, promotes a MATCH_FOUND case to
\* PENDING_CLOSURE as every signature does, and fails on any other status
\* with the case unchanged.
C22_SignaturesKept ==
    [][\A c \in DOMAIN cases :
         /\ cases[c].dual_signature_family => cases'[c].dual_signature_family
         /\ cases[c].dual_signature_police => cases'[c].dual_signature_police
         /\ \A u \in Users :
              (/\ SignClosure(c, u)
               /\ Signed(cases[c], Role(u))
               /\ ~Signed(cases[c], OtherRole(Role(u))))
              => /\ cases'[c].dual_signature_family = cases[c].dual_signature_family
                 /\ cases'[c].dual_signature_police = cases[c].dual_signature_police
                 /\ cases'[c].status =
                       IF cases[c].status = "MATCH_FOUND" THEN "PENDING_CLOSURE"
                       ELSE cases[c].status
                 /\ cases[c].status \notin {"MATCH_FOUND", "PENDING_CLOSURE"}
                    => (resp'.err = "ValueError" /\ cases'[c] = cases[c])]_vars

\* a MATCH_FOUND case that carries the family signature of an earlier
\* PENDING_CLOSURE (it went back through UNDER_INVESTIGATION), on which the
\* family member's next signature promotes the case again
C22_Witness ==
    /\ "c1" \in DOMAIN cases
    /\ cases["c1"].status = "MATCH_FOUND"
    /\ cases["c1"].dual_signature_family
    /\ ~cases["c1"].dual_signature_police
    /\ ENABLED (/\ SignClosure("c1", "family01")
                /\ cases'["c1"].status = "PENDING_CLOSURE"
                /\ cases'["c1"].dual_signature_family)

\* C23: a case that has just been created, through the report endpoint or
\* with the model's defaults, has status REPORTED, from which
\* UNDER_INVESTIGATION and CLOSED are legal; and a transition_to either of
\* them on a case that has had no transition yet succeeds.
C23_StartsReported ==
    [][\A c \in CaseIds, u \in Users :
         /\ (perform_create(c, u) \/ objects_create(c, u))
            => /\ cases'[c].status = "REPORTED"
               /\ {"UNDER_INVESTIGATION", "CLOSED"}
                     \subseteq VALID_TRANSITIONS(cases'[c].status)
         /\ \A s \in {"UNDER_INVESTIGATION", "CLOSED"} :
              (/\ u \in Officers
               /\ TransitionTo(c, s, u)
               /\ cases[c].status \notin STATUS_CHOICES \ {"REPORTED"})
              => resp'.err = ""]_vars

Qualifying(preds, target) ==
    {t \in {500 + 10 * i : i \in 0..49} :
        LET neg == {x \in DOMAIN preds : x.y_true = 0}
            n(S) == BagCardinality([k \in S |-> preds[k]])
        IN  IF n(neg) = 0 THEN 0 <= target
            ELSE n({x \in neg : x.confidence >= t}) * 10000 <= target * n(neg)}

\* C25: tune_thresholds returns, for every group of the axis present in the
\* predictions and for no other, a threshold between 0.50 and 0.99: the
\* highest threshold of the scan 0.50, 0.51, ..., 0.99 whose false-positive
\* rate is at most the target FPR (the argument, 0.005 when it is left
\* out), and 0.50 when no threshold qualifies.
C25_TunedThresholds ==
    report.ran =>
        LET out == report.out
            preds == report.predictions
            target == IF out.target_fpr = -1 THEN 50 ELSE out.target_fpr
        IN  /\ DOMAIN out.optimal = {k[out.axis] : k \in DOMAIN preds}
            /\ \A g \in DOMAIN out.optimal :
                  LET mine == [k \in {x \in DOMAIN preds : x[out.axis] = g} |-> preds[k]]
                      q == Qualifying(mine, target)
                  IN  /\ 500 <= out.optimal[g] /\ out.optimal[g] <= 990
                      /\ out.optimal[g] =
                            IF q = {} THEN 500
                            ELSE CHOOSE t \in q : \A t2 \in q : t2 <= t

\* C26: in every state a case has a resolution timestamp exactly when its
\* status is CLOSED, and no step (save, transition, signature, session
\* closure) changes a resolution timestamp that is set.
C26_ResolvedOnce ==
    /\ [](\A c \in DOMAIN cases :
            (cases[c].resolved_at # NoTime) <=> (cases[c].status = "CLOSED"))
    /\ [][\A c \in DOMAIN cases :
            cases[c].resolved_at # NoTime
            => cases'[c].resolved_at = cases[c].resolved_at]_vars

\* a case closed by a transition on day 1 whose session was finalized on
\* day 2: the case was saved again and kept its timestamp
C26_Witness ==
    /\ clock = 2
    /\ resp.op = "close"
    /\ resp.arg = "finalize"
    /\ resp.err = ""
    /\ resp.match # 0
    /\ sessions[resp.session].closed_at = 2
    /\ cases["c1"].status = "CLOSED"
    /\ cases["c1"].resolved_at = 1
    /\ matches[resp.match].status = "verified"

\* C27: in every state a FacialMatch whose status is verified or
\* false_positive has requires_human_review = false, also after a later
\* search has matched its (case, source image) pair again and after a
\* finalize closure has verified it.
C27_DecisionKept ==
    \A m \in 1..Len(matches) :
        matches[m].status \in {"verified", "false_positive"}
        => ~matches[m].requires_human_review

C29_NotASignature ==
    [][\A c \in DOMAIN cases :
         (resp'.op = "sign_closure" /\ resp'.case = c
            /\ resp'.arg \notin {"family_member", "police_officer"})
         => /\ cases'[c].status = cases[c].status
            /\ cases'[c].dual_signature_family = cases[c].dual_signature_family
            /\ cases'[c].dual_signature_police = cases[c].dual_signature_police]_vars

\* C30: of the closure requests served for one session, concurrently or
\* not, at most one takes effect; every other one is rejected as already
\* closed (or for its action token).
C30_ClosedOnce ==
    \A r1, r2 \in CloseReqs :
        (/\ r1 # r2
         /\ closures[r1].pc = "done"
         /\ closures[r2].pc = "done"
         /\ closures[r1].session = closures[r2].session)
        => closures[r1].err # "" \/ closures[r2].err # ""

====
